---- MODULE Spec2Model ----
(***************************************************************************)
(* Insurance policy approval workflow: the service operations of           *)
(* services/policyService.ts (createPolicy, updatePolicy, submitPolicy,    *)
(* processApproval, logApproval), the reject handler of PolicyDetail, and  *)
(* the row-level-security policies and constraints of the schema that the  *)
(* database applies to every statement the service issues.                 *)
(*                                                                         *)
(* Every await on the database is one atomic step; the steps of different  *)
(* calls interleave freely.  Every signed-in user has one call in progress *)
(* at a time (PolicyDetail disables its buttons while a call is loading);  *)
(* a call that has finished shows its outcome until it returns.  The       *)
(* arguments approverId / creatorId and comments of a direct service call, *)
(* and the role of a direct rejection, are first used by logApproval and   *)
(* are drawn there.  Timestamps (created_at, updated_at) and the uuid      *)
(* primary keys are not modelled: a row's id is its index.                 *)
(*                                                                         *)
(* Spec starts from an empty database and SpecSeeded from a stored policy. *)
(* SpecSequential runs the same calls one at a time, SpecRecorded keeps a  *)
(* record of every call that has returned, SpecProfiles adds the profile   *)
(* update the schema admits and SpecFraud runs performFraudCheck alone.    *)
(***************************************************************************)
EXTENDS Integers, Sequences, FiniteSets, TLC

\* ------------------------------------------------------------------ bounds
MaxPolicies == 1
MaxCalls == 2
MaxOps == 2
MaxNameLen == 3

\* ------------------------------------------------------- program constants
HighPremium == 100000
MinNameLen == 3
RandomFlagScore == 50
HighPremiumScore == 30
BadNameScore == 40
RiskCutoff == 50

UserRole == {"creator", "underwriter", "manager"}
PolicyStatus == {"draft", "pending_underwriter", "pending_manager", "approved", "rejected"}
ApprovalAction == {"submitted", "approved", "rejected"}

\* ------------------------------------------------------------ input sets
Users == {"c1", "c2", "u1", "m1"}
Digits == {"0", "1", "2", "3", "4", "5", "6", "7", "8", "9"}
Whitespace == {" "}
NamesIn == {<<"A", "n", "a">>, <<"4", "2", "0">>}
PremiumsIn == {500, 150000}
ProductsIn == {"Auto Insurance"}
CommentsIn == {<<>>, <<" ">>, <<"n", "o">>}
UpdateFields == {"customer_name", "premium_amount", "product_type"}

\* The inputs of a run of performFraudCheck on its own: every name of up to
\* MaxNameLen letters and digits, and premiums at, below and above the
\* threshold.
NameChars == {"A", "4"}
FraudNamesIn == UNION {[1..n -> NameChars] : n \in 0..MaxNameLen}
FraudPremiumsIn == {500, HighPremium, HighPremium + 1}

\* One session per signed-in user.
Slots == Users

\* ----------------------------------------------------------------- state
VARIABLES user_profiles, policies, approval_logs, calls, status_history, nops,
          fraud_run, finished

vars == <<user_profiles, policies, approval_logs, calls, status_history, nops, fraud_run,
          finished>>

\* ------------------------------------------------------- pure functions
\* String.prototype.trim on a sequence of characters.
RECURSIVE TrimLeft(_)
TrimLeft(s) ==
  IF s # <<>> /\ Head(s) \in Whitespace THEN TrimLeft(Tail(s)) ELSE s

RECURSIVE TrimRight(_)
TrimRight(s) ==
  IF s # <<>> /\ s[Len(s)] \in Whitespace
    THEN TrimRight(SubSeq(s, 1, Len(s) - 1))
    ELSE s

Trim(s) == TrimRight(TrimLeft(s))

\* /^\d+$/.test(name)
IsDigits(name) == Len(name) >= 1 /\ \A k \in 1..Len(name) : name[k] \in Digits

\* performFraudCheck with the cutoff compared by <= instead of <.
performFraudCheck_CutoffInclusive(policy, randomFraudFlag) ==
  LET f1 == IF randomFraudFlag THEN <<"Anomalous pattern detected by AI model">> ELSE <<>>
      s1 == IF randomFraudFlag THEN RandomFlagScore ELSE 0
      highPremium == policy.premium_amount > HighPremium
      f2 == IF highPremium THEN <<"Unusually high premium amount">> ELSE <<>>
      s2 == IF highPremium THEN HighPremiumScore ELSE 0
      badName == Len(policy.customer_name) < MinNameLen \/ IsDigits(policy.customer_name)
      f3 == IF badName THEN <<"Invalid customer name format">> ELSE <<>>
      s3 == IF badName THEN BadNameScore ELSE 0
      riskScore == s1 + s2 + s3
      passed == riskScore <= RiskCutoff
  IN [passed |-> passed,
      reason |-> IF passed
                   THEN [text |-> "All fraud checks passed successfully",
                         riskFactors |-> <<>>, riskScore |-> 0]
                   ELSE [text |-> "Fraud risk detected",
                         riskFactors |-> f1 \o f2 \o f3, riskScore |-> riskScore]]

\* performFraudCheck without the customer name rule.
performFraudCheck_NoNameRule(policy, randomFraudFlag) ==
  LET f1 == IF randomFraudFlag THEN <<"Anomalous pattern detected by AI model">> ELSE <<>>
      s1 == IF randomFraudFlag THEN RandomFlagScore ELSE 0
      highPremium == policy.premium_amount > HighPremium
      f2 == IF highPremium THEN <<"Unusually high premium amount">> ELSE <<>>
      s2 == IF highPremium THEN HighPremiumScore ELSE 0
      riskScore == s1 + s2
      passed == riskScore < RiskCutoff
  IN [passed |-> passed,
      reason |-> IF passed
                   THEN [text |-> "All fraud checks passed successfully",
                         riskFactors |-> <<>>, riskScore |-> 0]
                   ELSE [text |-> "Fraud risk detected",
                         riskFactors |-> f1 \o f2, riskScore |-> riskScore]]

performFraudCheck(policy, randomFraudFlag) ==
  LET f1 == IF randomFraudFlag THEN <<"Anomalous pattern detected by AI model">> ELSE <<>>
      s1 == IF randomFraudFlag THEN RandomFlagScore ELSE 0
      highPremium == policy.premium_amount > HighPremium
      f2 == IF highPremium THEN <<"Unusually high premium amount">> ELSE <<>>
      s2 == IF highPremium THEN HighPremiumScore ELSE 0
      badName == Len(policy.customer_name) < MinNameLen \/ IsDigits(policy.customer_name)
      f3 == IF badName THEN <<"Invalid customer name format">> ELSE <<>>
      s3 == IF badName THEN BadNameScore ELSE 0
      riskScore == s1 + s2 + s3
      passed == riskScore < RiskCutoff
  IN [passed |-> passed,
      reason |-> IF passed
                   THEN [text |-> "All fraud checks passed successfully",
                         riskFactors |-> <<>>, riskScore |-> 0]
                   ELSE [text |-> "Fraud risk detected",
                         riskFactors |-> f1 \o f2 \o f3, riskScore |-> riskScore]]

\* ------------------------------------------- row-level security (schema)
\* EXISTS (SELECT 1 FROM user_profiles WHERE id = auth.uid() AND role = r)
HasRole(uid, r) == uid \in DOMAIN user_profiles /\ user_profiles[uid] = r

\* "Users can update own profile": USING and WITH CHECK (auth.uid() = id)
ProfilesUpdateUsing(uid, id) == uid = id

ProfilesUpdateCheck(uid, id) == uid = id

\* role text NOT NULL CHECK (role IN ('creator', 'underwriter', 'manager'))
ProfilesConstraints(role) == role \in UserRole

PoliciesSelectUsing(uid, row) == uid \in DOMAIN user_profiles

\* The INSERT policy with the role test left out of WITH CHECK.
PoliciesInsertCheck_NoRole(uid, row) == row.creator_id = uid

PoliciesInsertCheck(uid, row) == row.creator_id = uid /\ HasRole(uid, "creator")

\* The creator's UPDATE policy with the ownership test left out of USING.
CreatorUpdateUsing_AnyOwner(uid, row) ==
  row.status = "draft" /\ HasRole(uid, "creator")

\* The creator's UPDATE policy with the status test left out of USING.
CreatorUpdateUsing_AnyStatus(uid, row) ==
  row.creator_id = uid /\ HasRole(uid, "creator")

CreatorUpdateUsing(uid, row) ==
  row.creator_id = uid /\ row.status = "draft" /\ HasRole(uid, "creator")

CreatorUpdateCheck(uid, row) == row.creator_id = uid /\ row.status = "draft"

\* The underwriter's UPDATE policy with the status test left out of USING.
UnderwriterUpdateUsing_AnyStatus(uid, row) == HasRole(uid, "underwriter")

UnderwriterUpdateUsing(uid, row) ==
  row.status = "pending_underwriter" /\ HasRole(uid, "underwriter")

\* The underwriter's UPDATE policy without a WITH CHECK clause: the USING
\* expression is then applied to the new row.
UnderwriterUpdateCheck_AsUsing(uid, row) == UnderwriterUpdateUsing(uid, row)

UnderwriterUpdateCheck(uid, row) == row.status \in {"pending_manager", "rejected"}

\* The manager's UPDATE policy with the status test left out of USING.
ManagerUpdateUsing_AnyStatus(uid, row) == HasRole(uid, "manager")

ManagerUpdateUsing(uid, row) ==
  row.status = "pending_manager" /\ HasRole(uid, "manager")

\* The manager's UPDATE policy with 'approved' missing from WITH CHECK.
ManagerUpdateCheck_NoApproved(uid, row) == row.status \in {"rejected"}

ManagerUpdateCheck(uid, row) == row.status \in {"approved", "rejected"}

\* The permissive UPDATE policies of one table are combined with OR: the
\* USING expressions select the rows the statement may touch, the WITH CHECK
\* expressions (of all of them) decide whether the new row may be stored.
PoliciesUpdateUsing(uid, row) ==
  \/ CreatorUpdateUsing(uid, row)
  \/ UnderwriterUpdateUsing(uid, row)
  \/ ManagerUpdateUsing(uid, row)

PoliciesUpdateCheck(uid, row) ==
  \/ CreatorUpdateCheck(uid, row)
  \/ UnderwriterUpdateCheck(uid, row)
  \/ ManagerUpdateCheck(uid, row)

ApprovalLogsInsertCheck(uid, row) == row.approver_id = uid

\* CHECK (premium_amount > 0), CHECK (status IN (...))
\* The table with a constraint that admits only rows whose fraud check passed.
PoliciesConstraints_FraudPassed(row) ==
  row.premium_amount > 0 /\ row.status \in PolicyStatus /\ row.fraud_check_passed

PoliciesConstraints(row) == row.premium_amount > 0 /\ row.status \in PolicyStatus

\* policy_number text UNIQUE
PolicyNumberUnique(number) == \A k \in 1..Len(policies) : policies[k].policy_number # number

\* supabase.from('policies').update(..).eq('id', policyId).select().single()
\* as the database answers it for auth.uid() = uid: "PGRST116" when no row
\* is returned, "42501" when the new row violates row-level security,
\* "23514" when it violates a check constraint.
UpdateError(uid, policyId, newRow) ==
  IF \/ policyId \notin 1..Len(policies)
     \/ ~PoliciesSelectUsing(uid, policies[policyId])
     \/ ~PoliciesUpdateUsing(uid, policies[policyId])
    THEN "PGRST116"
    ELSE IF ~PoliciesUpdateCheck(uid, newRow) THEN "42501"
    ELSE IF ~PoliciesConstraints(newRow) THEN "23514"
    ELSE "none"

\* generate_policy_number(): COUNT(*) + 1 over the policies table
generate_policy_number == Len(policies) + 1

\* --------------------------------------------------------------- calls
NoCall ==
  [op |-> "none", pc |-> "idle", via |-> "-", uid |-> "-", policyId |-> 0,
   approverId |-> "-", action |-> "-", role |-> "-", comments |-> <<>>,
   policy_status |-> "-", newStatus |-> "-",
   before_update |-> "-", after_update |-> "-",
   fields |-> {}, creator_id |-> "-", fraud_check_passed |-> TRUE,
   policy_number |-> 0, result |-> "-",
   notifications |-> <<>>, wrote |-> FALSE]

\* No finished call is waiting to return.
Running == \A i \in Slots : calls[i].pc # "done"

\* No operation is in progress.
Idle == \A i \in Slots : calls[i].pc \in {"idle", "done"}

\* The calls that have started and not returned.
InFlight == Cardinality({i \in Slots : calls[i].pc # "idle"})

\* The calls that have returned are not being recorded.
NoRecord == [on |-> FALSE]

\* The number of recorded calls.
Recorded == IF finished.on THEN Len(finished.ops) ELSE 0

\* User i may start a call: at most MaxCalls calls are in progress at a
\* time.  nops counts the calls that have written to a table; MaxOps bounds
\* them, the calls in flight included, and, while the calls are recorded,
\* every call.
Free(i) ==
  /\ calls[i].pc = "idle"
  /\ Running
  /\ InFlight < MaxCalls
  /\ nops + InFlight < MaxOps
  /\ Recorded + InFlight < MaxOps

Done(c, result, notifications) ==
  [c EXCEPT !.pc = "done", !.result = result, !.notifications = notifications]

\* No run of performFraudCheck on its own is under observation.
NoFraudRun == [pc |-> "none"]

\* ---------------------------------------------------------------- Init
Profiles ==
  [u \in Users |-> IF u \in {"c1", "c2"} THEN "creator"
                   ELSE IF u = "u1" THEN "underwriter" ELSE "manager"]

Init ==
  /\ user_profiles = Profiles
  /\ policies = <<>>
  /\ approval_logs = <<>>
  /\ calls = [i \in Slots |-> NoCall]
  /\ status_history = <<>>
  /\ nops = 0
  /\ fraud_run = NoFraudRun
  /\ finished = NoRecord

\* A database that already holds policies: every row is one the documented
\* workflow leaves behind (a draft, or a policy waiting for its underwriter
\* or its manager), with the audit entries of that workflow.
SeedStatus == {"draft", "pending_underwriter", "pending_manager"}

SeedRow(n, status) ==
  [policy_number |-> n, customer_name |-> <<"A", "n", "a">>, premium_amount |-> 500,
   product_type |-> "Auto Insurance", creator_id |-> "c1",
   fraud_check_passed |-> TRUE,
   fraud_check_reason |-> performFraudCheck(
      [customer_name |-> <<"A", "n", "a">>, premium_amount |-> 500], FALSE).reason,
   status |-> status]

SeedHistory(status) ==
  IF status = "draft" THEN <<"draft">>
  ELSE IF status = "pending_underwriter" THEN <<"draft", "pending_underwriter">>
  ELSE <<"draft", "pending_underwriter", "pending_manager">>

SeedEntry(n, k, history) ==
  [policy_id |-> n,
   approver_id |-> IF k = 1 THEN "c1" ELSE "u1",
   action |-> IF k = 1 THEN "submitted" ELSE "approved",
   role |-> IF k = 1 THEN "creator" ELSE "underwriter",
   comments |-> <<>>,
   previous_status |-> history[k],
   new_status |-> history[k + 1]]

RECURSIVE SeedLogs(_, _)
SeedLogs(statuses, n) ==
  IF n > Len(statuses) THEN <<>>
  ELSE LET history == SeedHistory(statuses[n])
       IN [k \in 1..(Len(history) - 1) |-> SeedEntry(n, k, history)]
          \o SeedLogs(statuses, n + 1)

\* The stored tables: empty, or one policy in one of the seed statuses.
SeedTables == {<<>>} \cup {<<status>> : status \in SeedStatus}

InitSeeded ==
  /\ user_profiles = Profiles
  /\ \E statuses \in SeedTables :
       /\ policies = [k \in 1..Len(statuses) |-> SeedRow(k, statuses[k])]
       /\ status_history = [k \in 1..Len(statuses) |-> SeedHistory(statuses[k])]
       /\ approval_logs = SeedLogs(statuses, 1)
  /\ calls = [i \in Slots |-> NoCall]
  /\ nops = 0
  /\ fraud_run = NoFraudRun
  /\ finished = NoRecord

\* ----------------------------------------------- inputs of the calls
\* The applications createPolicy is called with: a plain one, and one with
\* a numeric name and a high premium.
ApplicationsIn ==
  {[customer_name |-> <<"A", "n", "a">>, premium_amount |-> 500],
   [customer_name |-> <<"4", "2", "0">>, premium_amount |-> 150000]}

PolicyDataIn(uid) ==
  {[customer_name |-> a.customer_name, premium_amount |-> a.premium_amount,
    product_type |-> p, creator_id |-> cr] :
     a \in ApplicationsIn, p \in ProductsIn, cr \in {uid, "c1"}}

Absent == [customer_name |-> <<>>, premium_amount |-> 0, product_type |-> "-"]

UpdatesIn(fields) ==
  [customer_name : IF "customer_name" \in fields THEN NamesIn ELSE {Absent.customer_name},
   premium_amount : IF "premium_amount" \in fields THEN PremiumsIn ELSE {Absent.premium_amount},
   product_type : IF "product_type" \in fields THEN ProductsIn ELSE {Absent.product_type}]

\* The updates of the edit form (all three fields) and of a rename.
UpdateFieldSetsIn == {UpdateFields, {"customer_name"}}

\* The approverId / creatorId argument: the caller's own id or another's.
ApproverIdsIn(uid) == {uid, "c1"}

\* The ids a call is made with: those of the stored policies and, while
\* the table may grow, the next one (which no policy has yet).
PolicyIds == 1..(IF Len(policies) < MaxPolicies THEN Len(policies) + 1 ELSE MaxPolicies)

\* ------------------------------------------------------------- actions
\* createPolicy up to its insert: the rpc that computes the policy number.
\* (performFraudCheck runs before it on the arguments alone; its result is
\* first used by the insert and is computed there.)
CreatePolicy(i, uid) ==
  /\ Free(i)
  /\ Len(policies) < MaxPolicies
  /\ calls' = [calls EXCEPT ![i] =
       [NoCall EXCEPT !.op = "createPolicy", !.pc = "insert", !.via = "service",
                      !.uid = uid, !.policy_number = generate_policy_number]]
  /\ UNCHANGED <<user_profiles, fraud_run, finished, policies, approval_logs, status_history, nops>>

\* createPolicy: the fraud check of the arguments, the insert and what
\* follows it.
\* The notifications createPolicy emits after a successful insert.
CreateNotifications(passed) ==
  IF passed THEN <<"policy_created">> ELSE <<"policy_created", "fraud_alert">>

CreatePolicyInsertRow(i, policyData, randomFraudFlag) ==
  LET fraudCheck == performFraudCheck(policyData, randomFraudFlag)
      c == [calls[i] EXCEPT !.creator_id = policyData.creator_id,
                            !.fraud_check_passed = fraudCheck.passed]
      row == [policy_number |-> c.policy_number,
              customer_name |-> policyData.customer_name,
              premium_amount |-> policyData.premium_amount,
              product_type |-> policyData.product_type,
              creator_id |-> policyData.creator_id,
              fraud_check_passed |-> fraudCheck.passed,
              fraud_check_reason |-> fraudCheck.reason,
              status |-> "draft"]
      error == IF ~PoliciesInsertCheck(c.uid, row) THEN "42501"
               ELSE IF ~PoliciesConstraints(row) THEN "23514"
               ELSE IF ~PolicyNumberUnique(row.policy_number) THEN "23505"
               ELSE "none"
  IN /\ IF error # "none"
          THEN /\ calls' = [calls EXCEPT ![i] = Done(c, error, <<>>)]
               /\ UNCHANGED <<policies, status_history>>
          ELSE /\ policies' = Append(policies, row)
               /\ status_history' = Append(status_history, <<"draft">>)
               /\ calls' = [calls EXCEPT ![i] =
                    Done([c EXCEPT !.policyId = Len(policies) + 1, !.wrote = TRUE], "ok",
                         CreateNotifications(fraudCheck.passed))]
     /\ UNCHANGED <<user_profiles, fraud_run, finished, approval_logs, nops>>

\* An update that runs the fraud check again on the edited row and stores
\* its result.
UpdatedRow_Recheck(row, fields, updates) ==
  LET new == [k \in DOMAIN row |-> IF k \in fields THEN updates[k] ELSE row[k]]
      fraudCheck == performFraudCheck(new, FALSE)
  IN [new EXCEPT !.fraud_check_passed = fraudCheck.passed,
                 !.fraud_check_reason = fraudCheck.reason]

\* The row an update of the given fields produces.
UpdatedRow(row, fields, updates) ==
  [k \in DOMAIN row |-> IF k \in fields THEN updates[k] ELSE row[k]]

CreatePolicyInsert(i) ==
  /\ Running
  /\ calls[i].op = "createPolicy" /\ calls[i].pc = "insert"
  /\ \E policyData \in PolicyDataIn(calls[i].uid), randomFraudFlag \in BOOLEAN :
       CreatePolicyInsertRow(i, policyData, randomFraudFlag)

\* updatePolicy: one statement.
UpdatePolicyRow(i, uid, policyId, fields, updates) ==
  /\ LET c == [NoCall EXCEPT !.op = "updatePolicy", !.via = "service", !.uid = uid,
                             !.policyId = policyId, !.fields = fields]
         newRow == IF policyId \in 1..Len(policies)
                     THEN UpdatedRow(policies[policyId], fields, updates)
                     ELSE [status |-> "-"]
         error == UpdateError(uid, policyId, newRow)
     IN IF error # "none"
          THEN /\ calls' = [calls EXCEPT ![i] = Done(c, error, <<>>)]
               /\ UNCHANGED policies
          ELSE /\ policies' = [policies EXCEPT ![policyId] = newRow]
               /\ calls' = [calls EXCEPT ![i] =
                    Done([c EXCEPT !.wrote = TRUE], "ok", <<"policy_updated">>)]
  /\ UNCHANGED <<user_profiles, fraud_run, finished, approval_logs, status_history, nops>>

UpdatePolicy(i, uid, policyId, fields) ==
  /\ Free(i)
  /\ \E updates \in UpdatesIn(fields) : UpdatePolicyRow(i, uid, policyId, fields, updates)

\* getPolicy: the status of the row, or "null" when there is no row the
\* caller may see.
getPolicy(uid, policyId) ==
  IF policyId \in 1..Len(policies) /\ PoliciesSelectUsing(uid, policies[policyId])
    THEN policies[policyId].status
    ELSE "null"

\* submitPolicy up to its update: getPolicy and the null check.
SubmitPolicy(i, uid, policyId) ==
  /\ Free(i)
  /\ LET policy == getPolicy(uid, policyId)
         c == [NoCall EXCEPT !.op = "submitPolicy", !.via = "service", !.uid = uid,
                             !.policyId = policyId,
                             !.action = "submitted", !.role = "creator",
                             !.policy_status = policy,
                             !.newStatus = "pending_underwriter"]
     IN calls' = [calls EXCEPT ![i] =
          IF policy = "null" THEN Done(c, "Policy not found", <<>>)
                             ELSE [c EXCEPT !.pc = "update"]]
  /\ UNCHANGED <<user_profiles, fraud_run, finished, policies, approval_logs, status_history, nops>>

\* processApproval's choice of the new status; "throw" stands for
\* throw new Error('Invalid approval workflow state').
\* processApproval choosing the new status from the status alone.
approvalStatus_NoRoleCheck(action, status, role) ==
  IF action = "rejected" THEN "rejected"
  ELSE IF status = "pending_underwriter" THEN "pending_manager"
  ELSE IF status = "pending_manager" THEN "approved"
  ELSE "throw"

approvalStatus(action, status, role) ==
  IF action = "rejected" THEN "rejected"
  ELSE IF status = "pending_underwriter" /\ role = "underwriter" THEN "pending_manager"
  ELSE IF status = "pending_manager" /\ role = "manager" THEN "approved"
  ELSE "throw"

\* processApproval up to its update: getPolicy, the null check and the
\* choice of the new status.
processApprovalStart(i, c) ==
  LET policy == getPolicy(c.uid, c.policyId)
      newStatus == approvalStatus(c.action, policy, c.role)
      read == [c EXCEPT !.policy_status = policy]
  IN calls' = [calls EXCEPT ![i] =
       IF policy = "null" THEN Done(read, "Policy not found", <<>>)
       ELSE IF newStatus = "throw" THEN Done(read, "Invalid approval workflow state", <<>>)
       ELSE [read EXCEPT !.pc = "update", !.newStatus = newStatus]]

\* (A rejection first uses its role argument in logApproval; it is drawn
\* there.)
ProcessApproval(i, uid, policyId, action, role) ==
  /\ (action = "rejected") <=> (role = "-")
  /\ Free(i)
  /\ processApprovalStart(i,
       [NoCall EXCEPT !.op = "processApproval", !.via = "service", !.uid = uid,
                      !.policyId = policyId, !.action = action, !.role = role])
  /\ UNCHANGED <<user_profiles, fraud_run, finished, policies, approval_logs, status_history, nops>>

\* PolicyDetail.handleReject for the signed-in user uid.
HandleReject(i, uid, policyId, comments) ==
  /\ Free(i)
  /\ LET c == [NoCall EXCEPT !.op = "processApproval", !.via = "handleReject",
                             !.uid = uid, !.policyId = policyId,
                             !.approverId = uid, !.action = "rejected",
                             !.role = user_profiles[uid], !.comments = comments]
     IN IF Trim(comments) = <<>>
          THEN calls' = [calls EXCEPT ![i] =
                 Done(c, "Please provide a reason for rejection", <<>>)]
          ELSE processApprovalStart(i, c)
  /\ UNCHANGED <<user_profiles, fraud_run, finished, policies, approval_logs, status_history, nops>>

\* The status update followed by logApproval whatever the update answered
\* (the line "if (updateError) throw updateError" left out).
UpdateStatus_IgnoreError(i) ==
  LET c == calls[i]
      newRow == IF c.policyId \in 1..Len(policies)
                  THEN [policies[c.policyId] EXCEPT !.status = c.newStatus]
                  ELSE [status |-> "-"]
      error == UpdateError(c.uid, c.policyId, newRow)
      found == getPolicy(c.uid, c.policyId)
  IN /\ Running
     /\ c.pc = "update"
     /\ IF error # "none"
          THEN /\ calls' = [calls EXCEPT ![i] =
                    [c EXCEPT !.pc = "log",
                              !.before_update = found, !.after_update = found]]
               /\ UNCHANGED <<policies, status_history>>
          ELSE /\ policies' = [policies EXCEPT ![c.policyId] = newRow]
               /\ status_history' =
                    [status_history EXCEPT ![c.policyId] = Append(@, c.newStatus)]
               /\ calls' = [calls EXCEPT ![i] =
                    [c EXCEPT !.pc = "log", !.wrote = TRUE,
                              !.before_update = policies[c.policyId].status,
                              !.after_update = c.newStatus]]
     /\ UNCHANGED <<user_profiles, fraud_run, finished, approval_logs, nops>>

\* The status update of submitPolicy and of processApproval, and the check
\* of its error.
UpdateStatus(i) ==
  LET c == calls[i]
      newRow == IF c.policyId \in 1..Len(policies)
                  THEN [policies[c.policyId] EXCEPT !.status = c.newStatus]
                  ELSE [status |-> "-"]
      error == UpdateError(c.uid, c.policyId, newRow)
      found == getPolicy(c.uid, c.policyId)
  IN /\ Running
     /\ c.pc = "update"
     /\ IF error # "none"
          THEN /\ calls' = [calls EXCEPT ![i] =
                    Done([c EXCEPT !.before_update = found, !.after_update = found],
                         error, <<>>)]
               /\ UNCHANGED <<policies, status_history>>
          ELSE /\ policies' = [policies EXCEPT ![c.policyId] = newRow]
               /\ status_history' =
                    [status_history EXCEPT ![c.policyId] = Append(@, c.newStatus)]
               /\ calls' = [calls EXCEPT ![i] =
                    [c EXCEPT !.pc = "log", !.wrote = TRUE,
                              !.before_update = policies[c.policyId].status,
                              !.after_update = c.newStatus]]
     /\ UNCHANGED <<user_profiles, fraud_run, finished, approval_logs, nops>>

SubmitPolicyUpdate(i) == calls[i].op = "submitPolicy" /\ UpdateStatus(i)

ProcessApprovalUpdate(i) == calls[i].op = "processApproval" /\ UpdateStatus(i)

\* The notifications a call emits after its audit entry is written.
Notifications(c) ==
  IF c.op = "submitPolicy" THEN <<"policy_submitted", "approval_required">>
  ELSE IF c.action = "approved" /\ c.newStatus = "approved" THEN <<"policy_approved">>
  ELSE IF c.action = "approved" /\ c.newStatus = "pending_manager"
    THEN <<"policy_approved", "approval_required">>
  ELSE IF c.action = "rejected" THEN <<"policy_rejected">>
  ELSE <<>>

\* An insert that replaces the stored entry of the same policy, if there
\* is one (an upsert keyed on policy_id).
InsertLog_Upsert(logs, entry) ==
  IF \E k \in 1..Len(logs) : logs[k].policy_id = entry.policy_id
    THEN LET k == CHOOSE k \in 1..Len(logs) : logs[k].policy_id = entry.policy_id
         IN [logs EXCEPT ![k] = entry]
    ELSE Append(logs, entry)

\* supabase.from('approval_logs').insert(entry)
InsertLog(logs, entry) == Append(logs, entry)

\* logApproval as submitPolicy and processApproval call it, and the rest of
\* the caller.  approverId is the caller's creatorId / approverId argument;
\* handleReject has fixed the arguments already.
LogApprovalEntry(i, approverId, role, comments) ==
  LET c == [calls[i] EXCEPT !.approverId = approverId, !.role = role]
      entry == [policy_id |-> c.policyId,
                approver_id |-> approverId,
                action |-> c.action,
                role |-> role,
                comments |-> comments,
                previous_status |-> IF c.op = "submitPolicy" THEN "draft" ELSE c.policy_status,
                new_status |-> c.newStatus]
      error == IF ~ApprovalLogsInsertCheck(c.uid, entry) THEN "42501"
               ELSE IF entry.approver_id \notin DOMAIN user_profiles THEN "23503"
               ELSE IF entry.action \notin ApprovalAction THEN "23514"
               ELSE "none"
  IN /\ calls[i].via = "handleReject" =>
          approverId = calls[i].approverId /\ comments = calls[i].comments
     /\ calls[i].role # "-" => role = calls[i].role
     /\ calls[i].op = "submitPolicy" => comments = <<>>
     /\ IF error # "none"
          THEN /\ calls' = [calls EXCEPT ![i] = Done(c, error, <<>>)]
               /\ UNCHANGED approval_logs
          ELSE /\ approval_logs' = InsertLog(approval_logs, entry)
               /\ calls' = [calls EXCEPT ![i] = Done(c, "ok", Notifications(c))]
     /\ UNCHANGED <<user_profiles, fraud_run, finished, policies, status_history, nops>>

LogApproval(i) ==
  /\ Running
  /\ calls[i].pc = "log"
  /\ \E approverId \in ApproverIdsIn(calls[i].uid), role \in UserRole, comments \in CommentsIn :
       LogApprovalEntry(i, approverId, role, comments)

\* The arguments a call was made with, as far as it has used them.
Operation(c) ==
  [op |-> c.op, via |-> c.via, uid |-> c.uid, policyId |-> c.policyId,
   approverId |-> c.approverId, action |-> c.action, role |-> c.role,
   comments |-> c.comments, fields |-> c.fields, creator_id |-> c.creator_id]

\* The call returns to its caller (return data, or the throw).
Return(i) ==
  /\ calls[i].pc = "done"
  /\ calls' = [calls EXCEPT ![i] = NoCall]
  /\ nops' = IF calls[i].wrote THEN nops + 1 ELSE nops
  /\ finished' = IF finished.on
                   THEN [finished EXCEPT !.ops = Append(@, Operation(calls[i]))]
                   ELSE finished
  /\ UNCHANGED <<user_profiles, fraud_run, policies, approval_logs, status_history>>

Next ==
  \/ \E uid \in Users : CreatePolicy(uid, uid)
  \/ \E i \in Slots : CreatePolicyInsert(i)
  \/ \E uid \in Users, policyId \in PolicyIds, fields \in UpdateFieldSetsIn :
       UpdatePolicy(uid, uid, policyId, fields)
  \/ \E uid \in Users, policyId \in PolicyIds : SubmitPolicy(uid, uid, policyId)
  \/ \E i \in Slots : SubmitPolicyUpdate(i)
  \/ \E uid \in Users, policyId \in PolicyIds,
        action \in {"approved", "rejected"}, role \in UserRole \cup {"-"} :
       ProcessApproval(uid, uid, policyId, action, role)
  \/ \E uid \in Users, policyId \in PolicyIds, comments \in CommentsIn :
       HandleReject(uid, uid, policyId, comments)
  \/ \E i \in Slots : ProcessApprovalUpdate(i)
  \/ \E i \in Slots : LogApproval(i)
  \/ \E i \in Slots : Return(i)

Spec == Init /\ [][Next]_vars

SpecSeeded == InitSeeded /\ [][Next]_vars

\* The same program with every call that returns recorded, next to the
\* tables the run started from.
InitRecorded ==
  /\ user_profiles = Profiles
  /\ \E statuses \in SeedTables :
       /\ policies = [k \in 1..Len(statuses) |-> SeedRow(k, statuses[k])]
       /\ status_history = [k \in 1..Len(statuses) |-> SeedHistory(statuses[k])]
       /\ approval_logs = SeedLogs(statuses, 1)
  /\ calls = [i \in Slots |-> NoCall]
  /\ nops = 0
  /\ fraud_run = NoFraudRun
  /\ finished = [on |-> TRUE, ops |-> <<>>,
                 policies |-> policies, approval_logs |-> approval_logs]

SpecRecorded == InitRecorded /\ [][Next]_vars

\* The same program used by one person at a time: a call starts only when
\* no other call is in progress (the documented test flow is run this way).
NextSequential ==
  \/ \E uid \in Users : InFlight = 0 /\ CreatePolicy(uid, uid)
  \/ \E i \in Slots : CreatePolicyInsert(i)
  \/ \E uid \in Users, policyId \in PolicyIds, fields \in UpdateFieldSetsIn :
       InFlight = 0 /\ UpdatePolicy(uid, uid, policyId, fields)
  \/ \E uid \in Users, policyId \in PolicyIds :
       InFlight = 0 /\ SubmitPolicy(uid, uid, policyId)
  \/ \E i \in Slots : SubmitPolicyUpdate(i)
  \/ \E uid \in Users, policyId \in PolicyIds,
        action \in {"approved", "rejected"}, role \in UserRole \cup {"-"} :
       InFlight = 0 /\ ProcessApproval(uid, uid, policyId, action, role)
  \/ \E uid \in Users, policyId \in PolicyIds, comments \in CommentsIn :
       InFlight = 0 /\ HandleReject(uid, uid, policyId, comments)
  \/ \E i \in Slots : ProcessApprovalUpdate(i)
  \/ \E i \in Slots : LogApproval(i)
  \/ \E i \in Slots : Return(i)

SpecSequential == Init /\ [][NextSequential]_vars

\* ------------------------------- the profile update the schema admits
\* An update of the role of profile id sent by the authenticated user uid
\* (supabase.from('user_profiles').update({ role }).eq('id', id)): the
\* rows it may touch and the new row are decided by the UPDATE policy of
\* user_profiles and the check constraint on role.  A statement that
\* matches no row or is refused changes nothing.
UpdateProfile(uid, id, role) ==
  /\ Free(uid)
  /\ id \in DOMAIN user_profiles
  /\ ProfilesUpdateUsing(uid, id)
  /\ ProfilesUpdateCheck(uid, id)
  /\ ProfilesConstraints(role)
  /\ user_profiles' = [user_profiles EXCEPT ![id] = role]
  /\ nops' = nops + 1
  /\ UNCHANGED <<policies, approval_logs, calls, status_history, fraud_run, finished>>

NextProfiles ==
  \/ Next
  \/ \E uid \in Users, id \in Users, role \in UserRole \cup {"admin"} :
       UpdateProfile(uid, id, role)

SpecProfiles == Init /\ [][NextProfiles]_vars

\* ------------------------------------- performFraudCheck on its own
\* createPolicy is about to run the fraud check on its argument; the
\* outcome of Math.random() < 0.2 is drawn with the argument.
InitFraud ==
  /\ user_profiles = Profiles
  /\ policies = <<>>
  /\ approval_logs = <<>>
  /\ status_history = <<>>
  /\ calls = [i \in Slots |-> NoCall]
  /\ nops = 0
  /\ finished = NoRecord
  /\ \E name \in FraudNamesIn, premium \in FraudPremiumsIn,
        product \in ProductsIn, flag \in BOOLEAN :
       fraud_run = [pc |-> "start",
                    policy |-> [customer_name |-> name, premium_amount |-> premium,
                                product_type |-> product],
                    randomFraudFlag |-> flag]

\* The fraud check of createPolicy and the notifications that follow from
\* its result once the row is stored.
FraudCheckRun ==
  /\ fraud_run.pc = "start"
  /\ LET fraudCheck == performFraudCheck(fraud_run.policy, fraud_run.randomFraudFlag)
     IN fraud_run' = [pc |-> "done",
                      policy |-> fraud_run.policy,
                      randomFraudFlag |-> fraud_run.randomFraudFlag,
                      fraudCheck |-> fraudCheck,
                      notifications |-> CreateNotifications(fraudCheck.passed)]
  /\ UNCHANGED <<user_profiles, policies, approval_logs, calls, status_history, nops,
                 finished>>

NextFraud == FraudCheckRun

SpecFraud == InitFraud /\ [][NextFraud]_vars

TypeOK ==
  /\ Len(policies) <= MaxPolicies
  /\ \A p \in 1..Len(policies) : policies[p].status \in PolicyStatus
  /\ nops \in 0..MaxOps

\* ------------------------------------------------------------- claims
AllowedTransitions ==
  {<<"draft", "pending_underwriter">>,
   <<"pending_underwriter", "pending_manager">>,
   <<"pending_manager", "approved">>,
   <<"pending_underwriter", "rejected">>,
   <<"pending_manager", "rejected">>}

\* The role that acts on a policy in the given status.
StageRole(status) ==
  IF status = "draft" THEN "creator"
  ELSE IF status = "pending_underwriter" THEN "underwriter"
  ELSE IF status = "pending_manager" THEN "manager"
  ELSE "nobody"

\* The transition table of the specification for the two approver stages.
TransitionTable(status, action) ==
  IF action = "rejected" THEN "rejected"
  ELSE IF status = "pending_underwriter" THEN "pending_manager"
  ELSE "approved"

\* The number of times the status of policy p has changed.
StatusChanges(p) ==
  Cardinality({k \in 1..(Len(status_history[p]) - 1) :
                 status_history[p][k] # status_history[p][k + 1]})

AuditEntries(p) == {k \in 1..Len(approval_logs) : approval_logs[k].policy_id = p}

\* C1: every change of a policy's status is one step forward along
\* draft -> pending_underwriter -> pending_manager -> approved, or a step
\* from one of the two pending statuses into rejected.
C1_StatusMonotonic ==
  [][\A p \in 1..Len(policies) :
       policies'[p].status # policies[p].status =>
         <<policies[p].status, policies'[p].status>> \in AllowedTransitions]_vars

\* C2: a submitPolicy call by the creator who owns the policy, made as
\* themselves on a policy that is a draft when the update reaches it,
\* succeeds and writes pending_underwriter.
C2_SubmitSucceeds ==
  \A i \in Slots :
    LET c == calls[i]
    IN (/\ c.pc = "done" /\ c.op = "submitPolicy"
        /\ c.before_update = "draft"
        /\ policies[c.policyId].creator_id = c.uid
        /\ HasRole(c.uid, "creator")
        /\ c.approverId \in {c.uid, "-"})
       => c.result = "ok" /\ c.after_update = "pending_underwriter"

\* C3: a processApproval call made by a user as themselves (approverId and
\* role, once the call has used them, are the caller's own) whose profile
\* role is the one the policy's pending status waits for succeeds and
\* writes the status of the transition table.
C3_TransitionTable ==
  \A i \in Slots :
    LET c == calls[i]
        status == IF c.before_update # "-" THEN c.before_update ELSE c.policy_status
    IN (/\ c.pc = "done" /\ c.op = "processApproval"
        /\ status \in {"pending_underwriter", "pending_manager"}
        /\ user_profiles[c.uid] = StageRole(status)
        /\ c.role \in {user_profiles[c.uid], "-"}
        /\ c.approverId \in {c.uid, "-"})
       => c.result = "ok" /\ c.after_update = TransitionTable(status, c.action)

C3_Witness ==
  \E i \in Slots :
    /\ calls[i].pc = "done" /\ calls[i].op = "processApproval"
    /\ calls[i].uid = "u1" /\ calls[i].role = "underwriter"
    /\ calls[i].action = "approved"
    /\ calls[i].before_update = "pending_underwriter"
    /\ calls[i].result = "ok"
    /\ policies[calls[i].policyId].status = "pending_manager"

\* C4: a processApproval call with action 'rejected' whose update reaches a
\* policy in a status that does not wait for the caller's role, or whose
\* role argument is not the caller's profile role, is refused and leaves
\* the status as it was.
C4_RejectOnlyAtOwnStage ==
  \A i \in Slots :
    LET c == calls[i]
    IN (/\ c.pc = "done" /\ c.op = "processApproval" /\ c.action = "rejected"
        /\ c.before_update \in PolicyStatus
        /\ ~(/\ c.before_update \in {"pending_underwriter", "pending_manager"}
             /\ user_profiles[c.uid] = StageRole(c.before_update)
             /\ c.role = user_profiles[c.uid]))
       => c.result # "ok" /\ c.after_update = c.before_update

\* C5: a processApproval call with action 'approved' that reads a policy
\* whose status, with the role argument, is neither (pending_underwriter,
\* underwriter) nor (pending_manager, manager) ends at once with 'Invalid
\* approval workflow state' and changes neither a policy nor the audit log.
C5_InvalidApprovalThrows ==
  [][\A i \in Slots :
       LET c == calls'[i]
       IN (/\ calls[i].pc = "idle" /\ c.op = "processApproval"
           /\ c.action = "approved"
           /\ c.policy_status \in PolicyStatus
           /\ <<c.policy_status, c.role>> \notin
                {<<"pending_underwriter", "underwriter">>, <<"pending_manager", "manager">>})
          => /\ c.pc = "done"
             /\ c.result = "Invalid approval workflow state"
             /\ UNCHANGED <<policies, approval_logs>>]_vars

C5_Witness ==
  \E i \in Slots :
    /\ calls[i].pc = "done" /\ calls[i].op = "processApproval"
    /\ calls[i].action = "approved"
    /\ calls[i].policy_status = "pending_underwriter" /\ calls[i].role = "manager"
    /\ calls[i].result = "Invalid approval workflow state"

\* PolicyDetail.canSubmit for the user uid and the stored row.
canSubmit(uid, row) ==
  HasRole(uid, "creator") /\ row.status = "draft" /\ row.creator_id = uid

\* C6: the update of a submitPolicy call that reaches a policy which is not
\* a draft, or not the caller's own, is refused and changes neither the
\* policy nor the audit log; a 'submitted' audit entry is appended only by
\* a call whose update found the caller's own draft.
C6_SubmitOnlyOwnDraft ==
  [][/\ \A i \in Slots :
          (/\ calls[i].op = "submitPolicy" /\ calls[i].pc = "update"
           /\ calls'[i] # calls[i]
           /\ ~canSubmit(calls[i].uid, policies[calls[i].policyId]))
          => /\ calls'[i].pc = "done" /\ calls'[i].result # "ok"
             /\ UNCHANGED <<policies, approval_logs>>
     /\ (/\ Len(approval_logs') > Len(approval_logs)
         /\ approval_logs'[Len(approval_logs')].action = "submitted")
        => \E i \in Slots :
             /\ calls[i].op = "submitPolicy" /\ calls[i].pc = "log"
             /\ calls[i].before_update = "draft"
             /\ policies[calls[i].policyId].creator_id = calls[i].uid
             /\ HasRole(calls[i].uid, "creator")]_vars

C6_Witness ==
  \E i \in Slots :
    /\ calls[i].pc = "done" /\ calls[i].op = "submitPolicy"
    /\ calls[i].uid = "u1"
    /\ calls[i].before_update = "pending_underwriter"
    /\ calls[i].result = "42501"
    /\ policies[calls[i].policyId].status = "pending_underwriter"

\* C7: no audit entry records a rejection whose comment is empty or only
\* whitespace.
C7_RejectionNeedsComment ==
  \A k \in 1..Len(approval_logs) :
    approval_logs[k].action = "rejected" => Trim(approval_logs[k].comments) # <<>>

\* C8: when no operation is in progress, every policy has as many audit
\* entries as its status has changed.
C8_OneEntryPerChange ==
  Idle => \A p \in 1..Len(policies) : Cardinality(AuditEntries(p)) = StatusChanges(p)

\* C9: the audit entry a call has just written records the status its
\* update found as previous_status and the status it wrote as new_status.
C9_EntryMatchesUpdate ==
  \A i \in Slots :
    LET c == calls[i]
        entry == approval_logs[Len(approval_logs)]
    IN (c.pc = "done" /\ c.op \in {"submitPolicy", "processApproval"} /\ c.result = "ok")
       => /\ entry.previous_status = c.before_update
          /\ entry.new_status = c.after_update

TerminalStatus == {"approved", "rejected"}

\* C11: a policy whose status is approved or rejected keeps every field in
\* every step, and an audit entry appended for it comes from a call that
\* read the policy before it was approved or rejected (no call that found
\* it approved or rejected appends one).
C11_TerminalStatesFinal ==
  [][\A p \in 1..Len(policies) :
       policies[p].status \in TerminalStatus =>
         /\ policies'[p] = policies[p]
         /\ \A i \in Slots :
              (/\ calls[i].pc = "log" /\ calls[i].policyId = p
               /\ Len(approval_logs') > Len(approval_logs))
              => calls[i].policy_status \notin TerminalStatus]_vars

C11_Witness ==
  \E i \in Slots :
    /\ calls[i].pc = "done" /\ calls[i].op = "processApproval"
    /\ calls[i].uid = "m1" /\ calls[i].action = "rejected"
    /\ calls[i].policy_status = "approved"
    /\ calls[i].result = "PGRST116"
    /\ policies[calls[i].policyId].status = "approved"

\* The statuses a policy has gone through, repeats of one status dropped.
RECURSIVE Stages(_)
Stages(h) ==
  IF Len(h) <= 1 THEN h
  ELSE IF h[1] = h[2] THEN Stages(Tail(h))
  ELSE <<h[1]>> \o Stages(Tail(h))

\* The call that takes this step performs the update of policy p as a user
\* whose profile role is r, through operation op with the given action.
UpdatedBy(p, op, action, r) ==
  \E i \in Slots :
    /\ calls[i].pc = "update" /\ calls'[i] # calls[i]
    /\ calls[i].policyId = p /\ calls[i].op = op /\ calls[i].action = action
    /\ HasRole(calls[i].uid, r)

SuccessfulUpdate(i, p) ==
  /\ calls'[i].policyId = p
  /\ \/ calls[i].pc = "idle" /\ calls'[i].op = "updatePolicy" /\ calls'[i].result = "ok"
     \/ calls[i].pc = "update" /\ calls'[i].pc = "log"

\* The users the specification lets change the row.
MayChange(uid, row) ==
  /\ uid \in DOMAIN user_profiles
  /\ \/ row.status = "draft" /\ row.creator_id = uid /\ user_profiles[uid] = "creator"
     \/ row.status = "pending_underwriter" /\ user_profiles[uid] = "underwriter"
     \/ row.status = "pending_manager" /\ user_profiles[uid] = "manager"

\* C13: a stored policy row changes only in a successful update of a
\* call, and every successful update is made by the row's creator (profile
\* role creator) while the row is a draft, by a user whose profile role is
\* underwriter while it is pending_underwriter, or by a user whose profile
\* role is manager while it is pending_manager, whatever role argument
\* the call was given.
C13_ChangesOnlyByStageOwner ==
  [][\A p \in 1..Len(policies) :
       /\ policies'[p] # policies[p] => \E i \in Slots : SuccessfulUpdate(i, p)
       /\ \A i \in Slots :
            SuccessfulUpdate(i, p) => MayChange(calls'[i].uid, policies[p])]_vars

C13_Witness ==
  \E i \in Slots :
    /\ calls[i].pc = "done" /\ calls[i].op = "processApproval"
    /\ calls[i].uid = "m1" /\ calls[i].role = "creator"
    /\ calls[i].before_update = "pending_manager"
    /\ calls[i].result = "ok"
    /\ policies[calls[i].policyId].status = "rejected"

\* C14: an updatePolicy call by a user whose profile role is underwriter or
\* manager leaves customer name, premium amount and product type of the
\* policy as they were, whatever its status.
C14_ApproversCannotEdit ==
  [][\A i \in Slots :
       LET c == calls'[i]
       IN (/\ calls[i].pc = "idle" /\ c.op = "updatePolicy"
           /\ c.policyId \in 1..Len(policies)
           /\ user_profiles[c.uid] \in {"underwriter", "manager"})
          => \A k \in UpdateFields :
               policies'[c.policyId][k] = policies[c.policyId][k]]_vars

StatedHighPremium(policy) == policy.premium_amount > 100000

StatedBadName(policy) ==
  \/ Len(policy.customer_name) < 3
  \/ \A k \in 1..Len(policy.customer_name) : policy.customer_name[k] \in Digits

StatedScore(policy, flag) ==
  (IF flag THEN 50 ELSE 0)
  + (IF StatedHighPremium(policy) THEN 30 ELSE 0)
  + (IF StatedBadName(policy) THEN 40 ELSE 0)

C17_SingleFactorFlags ==
  fraud_run.pc = "done" =>
    LET policy == fraud_run.policy
    IN (\/ policy.premium_amount > HighPremium
        \/ Len(policy.customer_name) < MinNameLen
        \/ IsDigits(policy.customer_name))
       => /\ ~fraud_run.fraudCheck.passed
          /\ \E k \in 1..Len(fraud_run.notifications) :
               fraud_run.notifications[k] = "fraud_alert"

\* C18: a policy whose fraud check failed at creation is never in a status
\* of the approval workflow (pending_underwriter, pending_manager,
\* approved), and once the call that created it is over it is rejected.
C18_FlaggedIsRejected ==
  \A p \in 1..Len(policies) :
    ~policies[p].fraud_check_passed =>
      /\ policies[p].status \notin {"pending_underwriter", "pending_manager", "approved"}
      /\ Idle => policies[p].status = "rejected"

\* C19: in every step the audit log keeps every entry it has, unchanged and
\* in place; it changes only by growing at its end.
C19_AuditLogAppendOnly ==
  [][/\ Len(approval_logs') >= Len(approval_logs)
     /\ \A k \in 1..Len(approval_logs) : approval_logs'[k] = approval_logs[k]]_vars

C19_Witness ==
  \E i \in Slots :
    /\ calls[i].pc = "done" /\ calls[i].op = "processApproval"
    /\ calls[i].result = "ok"
    /\ Len(approval_logs) >= 2
    /\ approval_logs[1].action = "submitted"
    /\ approval_logs[Len(approval_logs)].policy_id = approval_logs[1].policy_id
    /\ approval_logs[Len(approval_logs)].approver_id = calls[i].uid

\* C20: no step changes the role of an existing profile.
C20_RoleFixed ==
  [][\A u \in DOMAIN user_profiles : user_profiles'[u] = user_profiles[u]]_vars

\* C21: no two createPolicy calls hold the same generated policy number, and
\* no createPolicy call is refused because its number is already stored
\* (unique violation 23505).
C21_PolicyNumbersUnique ==
  /\ \A i, j \in Slots :
       (/\ i # j
        /\ calls[i].op = "createPolicy" /\ calls[j].op = "createPolicy")
       => calls[i].policy_number # calls[j].policy_number
  /\ \A i \in Slots :
       (calls[i].op = "createPolicy" /\ calls[i].pc = "done")
       => calls[i].result # "23505"

\* ---- the operations run one at a time, on tables given as arguments
\* A serial order runs every operation from its first statement to its last
\* with no statement of another operation in between.  The operators below
\* give the tables such a run of one recorded operation leaves; an argument
\* the recorded call has not used (or the record does not hold) ranges over
\* the inputs.
getPolicyAt(table, uid, policyId) ==
  IF policyId \in 1..Len(table) /\ PoliciesSelectUsing(uid, table[policyId])
    THEN table[policyId].status
    ELSE "null"

UpdateErrorAt(table, uid, policyId, newRow) ==
  IF \/ policyId \notin 1..Len(table)
     \/ ~PoliciesSelectUsing(uid, table[policyId])
     \/ ~PoliciesUpdateUsing(uid, table[policyId])
    THEN "PGRST116"
    ELSE IF ~PoliciesUpdateCheck(uid, newRow) THEN "42501"
    ELSE IF ~PoliciesConstraints(newRow) THEN "23514"
    ELSE "none"

SerialCreatePolicy(db, o) ==
  {LET fraudCheck == performFraudCheck(policyData, randomFraudFlag)
       row == [policy_number |-> Len(db.policies) + 1,
               customer_name |-> policyData.customer_name,
               premium_amount |-> policyData.premium_amount,
               product_type |-> policyData.product_type,
               creator_id |-> policyData.creator_id,
               fraud_check_passed |-> fraudCheck.passed,
               fraud_check_reason |-> fraudCheck.reason,
               status |-> "draft"]
   IN IF PoliciesInsertCheck(o.uid, row) /\ PoliciesConstraints(row)
        THEN [db EXCEPT !.policies = Append(@, row)]
        ELSE db :
   policyData \in {d \in PolicyDataIn(o.uid) : d.creator_id = o.creator_id},
   randomFraudFlag \in BOOLEAN}

SerialUpdatePolicy(db, o) ==
  {LET newRow == IF o.policyId \in 1..Len(db.policies)
                   THEN UpdatedRow(db.policies[o.policyId], o.fields, updates)
                   ELSE [status |-> "-"]
   IN IF UpdateErrorAt(db.policies, o.uid, o.policyId, newRow) = "none"
        THEN [db EXCEPT !.policies[o.policyId] = newRow]
        ELSE db :
   updates \in UpdatesIn(o.fields)}

\* The status update and the audit entry of submitPolicy / processApproval.
SerialStatusChange(db, o, previous, newStatus) ==
  LET newRow == [db.policies[o.policyId] EXCEPT !.status = newStatus]
      updated == [db EXCEPT !.policies[o.policyId] = newRow]
  IN IF UpdateErrorAt(db.policies, o.uid, o.policyId, newRow) # "none"
       THEN {db}
       ELSE {LET entry == [policy_id |-> o.policyId,
                           approver_id |-> approverId,
                           action |-> o.action,
                           role |-> role,
                           comments |-> comments,
                           previous_status |-> previous,
                           new_status |-> newStatus]
             IN IF /\ ApprovalLogsInsertCheck(o.uid, entry)
                   /\ entry.approver_id \in DOMAIN user_profiles
                   /\ entry.action \in ApprovalAction
                  THEN [updated EXCEPT !.approval_logs = InsertLog(@, entry)]
                  ELSE updated :
             approverId \in (IF o.approverId = "-" THEN ApproverIdsIn(o.uid)
                             ELSE {o.approverId}),
             role \in (IF o.role = "-" THEN UserRole ELSE {o.role}),
             comments \in (IF o.via = "handleReject" THEN {o.comments}
                           ELSE IF o.op = "submitPolicy" THEN {<<>>}
                           ELSE CommentsIn)}

SerialSubmitPolicy(db, o) ==
  IF getPolicyAt(db.policies, o.uid, o.policyId) = "null"
    THEN {db}
    ELSE SerialStatusChange(db, o, "draft", "pending_underwriter")

SerialProcessApproval(db, o) ==
  LET policy == getPolicyAt(db.policies, o.uid, o.policyId)
      newStatus == approvalStatus(o.action, policy, o.role)
  IN IF o.via = "handleReject" /\ Trim(o.comments) = <<>> THEN {db}
     ELSE IF policy = "null" \/ newStatus = "throw" THEN {db}
     ELSE SerialStatusChange(db, o, policy, newStatus)

SerialOperation(db, o) ==
  IF o.op = "createPolicy" THEN SerialCreatePolicy(db, o)
  ELSE IF o.op = "updatePolicy" THEN SerialUpdatePolicy(db, o)
  ELSE IF o.op = "submitPolicy" THEN SerialSubmitPolicy(db, o)
  ELSE SerialProcessApproval(db, o)

\* The tables the operations ops[k], k in remaining, leave when they run
\* one after the other, in any order, from one of the tables dbs.
RECURSIVE SerialRuns(_, _, _)
SerialRuns(dbs, ops, remaining) ==
  IF remaining = {} THEN dbs
  ELSE UNION {SerialRuns(UNION {SerialOperation(db, ops[k]) : db \in dbs},
                         ops, remaining \ {k}) : k \in remaining}

\* C22: when every call has returned, the policies and the audit log are
\* tables that some serial order of the recorded calls leaves, started from
\* the tables the run started from.
C22_Serializable ==
  (finished.on /\ \A i \in Slots : calls[i].pc = "idle")
  => [policies |-> policies, approval_logs |-> approval_logs]
       \in SerialRuns({[policies |-> finished.policies,
                        approval_logs |-> finished.approval_logs]},
                      finished.ops, 1..Len(finished.ops))

\* C23: a policy is stored only by a createPolicy call of a user whose
\* profile role is creator, as a draft with that user as its creator; the
\* insert of a createPolicy call by a user who is not a creator, or with
\* another user's id as creator_id, is refused and stores nothing.
C23_OnlyCreatorsCreate ==
  [][/\ Len(policies') # Len(policies) =>
          /\ Len(policies') = Len(policies) + 1
          /\ policies'[Len(policies')].status = "draft"
          /\ \E i \in Slots :
               /\ calls[i].op = "createPolicy" /\ calls[i].pc = "insert"
               /\ calls'[i].pc = "done" /\ calls'[i].result = "ok"
               /\ policies'[Len(policies')].creator_id = calls[i].uid
               /\ user_profiles[calls[i].uid] = "creator"
     /\ \A i \in Slots :
          (/\ calls[i].op = "createPolicy" /\ calls[i].pc = "insert"
           /\ calls'[i].pc = "done"
           /\ \/ user_profiles[calls[i].uid] # "creator"
              \/ calls'[i].creator_id # calls[i].uid)
          => calls'[i].result # "ok" /\ UNCHANGED policies]_vars

C23_Witness ==
  \E i \in Slots :
    /\ calls[i].op = "createPolicy" /\ calls[i].pc = "done"
    /\ calls[i].uid = "c2" /\ calls[i].creator_id = "c1"
    /\ user_profiles["c2"] = "creator"
    /\ calls[i].result = "42501"
    /\ policies = <<>>

\* The answer of the database to the status update call i is about to send.
UpdateAnswer(i) ==
  UpdateError(calls[i].uid, calls[i].policyId,
              [policies[calls[i].policyId] EXCEPT !.status = calls[i].newStatus])

\* C24: when the database refuses the status update of a submitPolicy or
\* processApproval call, the call ends with that error, the policies and the
\* audit log are unchanged and the call emits no notification; a call that
\* has ended with an error of its update has emitted none.
C24_RefusedUpdateStops ==
  [][\A i \in Slots :
       (/\ calls[i].pc = "update" /\ calls'[i] # calls[i]
        /\ UpdateAnswer(i) # "none")
       => /\ calls'[i].pc = "done"
          /\ calls'[i].result = UpdateAnswer(i)
          /\ calls'[i].notifications = <<>>
          /\ UNCHANGED <<policies, approval_logs>>]_vars

C24_Witness ==
  \E i \in Slots :
    /\ calls[i].op = "processApproval" /\ calls[i].pc = "done"
    /\ calls[i].result = "PGRST116"
    /\ calls[i].before_update = "draft"
    /\ calls[i].notifications = <<>>
    /\ policies[calls[i].policyId].status = "draft"
    /\ approval_logs = <<>>

\* The audit entries of policy p in insertion order, as
\* <<action, previous_status, new_status>>.
RECURSIVE EntriesOf(_, _)
EntriesOf(logs, p) ==
  IF logs = <<>> THEN <<>>
  ELSE IF Head(logs).policy_id = p
    THEN <<<<Head(logs).action, Head(logs).previous_status, Head(logs).new_status>>>>
         \o EntriesOf(Tail(logs), p)
    ELSE EntriesOf(Tail(logs), p)

\* The audit entries of the test flow up to the given status.
FlowEntries(status) ==
  LET all == <<<<"submitted", "draft", "pending_underwriter">>,
               <<"approved", "pending_underwriter", "pending_manager">>,
               <<"approved", "pending_manager", "approved">>>>
  IN SubSeq(all, 1, IF status = "draft" THEN 0
                    ELSE IF status = "pending_underwriter" THEN 1
                    ELSE IF status = "pending_manager" THEN 2 ELSE 3)

\* A finished call c is a step of the documented test flow: a creator's
\* createPolicy for themselves, the owner's submitPolicy of their draft, or
\* an approval by the approver whose stage the policy is in, made as
\* themselves, of a policy whose audit entries before the call were those
\* of the flow.
FlowStep(c) ==
  \/ /\ c.op = "createPolicy"
     /\ HasRole(c.uid, "creator") /\ c.creator_id = c.uid
  \/ /\ \/ /\ c.op = "submitPolicy" /\ c.policy_status = "draft"
           /\ HasRole(c.uid, "creator") /\ policies[c.policyId].creator_id = c.uid
        \/ /\ c.op = "processApproval" /\ c.action = "approved"
           /\ c.policy_status \in {"pending_underwriter", "pending_manager"}
           /\ user_profiles[c.uid] = StageRole(c.policy_status)
           /\ c.role = user_profiles[c.uid]
     /\ c.approverId \in {c.uid, "-"}
     /\ LET entries == EntriesOf(approval_logs, c.policyId)
            before == FlowEntries(c.policy_status)
        IN \/ entries = before
           \/ entries # <<>> /\ SubSeq(entries, 1, Len(entries) - 1) = before

\* The status a step of the test flow leaves the policy in.
FlowStatus(c) ==
  IF c.op = "createPolicy" THEN "draft"
  ELSE IF c.op = "submitPolicy" THEN "pending_underwriter"
  ELSE TransitionTable(c.policy_status, "approved")

\* C25: from an empty system, with one call at a time, every step of the
\* documented test flow (create, submit, underwriter approval, manager
\* approval) succeeds and leaves the policy in the next status of the flow
\* with the audit entries of the flow up to that status.
C25_TestFlowCompletes ==
  \A i \in Slots :
    LET c == calls[i]
    IN (c.pc = "done" /\ FlowStep(c))
       => /\ c.result = "ok"
          /\ policies[c.policyId].status = FlowStatus(c)
          /\ EntriesOf(approval_logs, c.policyId) = FlowEntries(FlowStatus(c))

\* C26: every audit entry is appended by the call of the user it names as
\* approver_id, and its role is that user's profile role when the entry is
\* written.
C26_EntryRecordsActor ==
  [][Len(approval_logs') > Len(approval_logs) =>
       \E i \in Slots :
         /\ calls[i].pc = "log" /\ calls'[i].pc = "done"
         /\ approval_logs'[Len(approval_logs')].approver_id = calls[i].uid
         /\ approval_logs'[Len(approval_logs')].role = user_profiles[calls[i].uid]]_vars

\* The entries (<<action, previous_status, new_status>>, in insertion order)
\* form a chain from draft to the given status.
Chain(entries, status) ==
  IF entries = <<>> THEN status = "draft"
  ELSE /\ entries[1][2] = "draft"
       /\ \A k \in 2..Len(entries) : entries[k][2] = entries[k - 1][3]
       /\ entries[Len(entries)][3] = status

\* C27: when no operation is in progress, the audit entries of every policy
\* form a chain from draft to the policy's current status.
C27_AuditChain ==
  Idle => \A p \in 1..Len(policies) :
            Chain(EntriesOf(approval_logs, p), policies[p].status)

PendingStatus == {"pending_underwriter", "pending_manager"}

\* C28: of two processApproval calls that have read the same policy in the
\* same pending status, at most one changes the status, and no policy has
\* two audit entries for the same pending status.
C28_OneApproverWins ==
  /\ \A i, j \in Slots :
       (/\ i # j
        /\ calls[i].op = "processApproval" /\ calls[j].op = "processApproval"
        /\ calls[i].policyId = calls[j].policyId
        /\ calls[i].policy_status \in PendingStatus
        /\ calls[i].policy_status = calls[j].policy_status)
       => ~(calls[i].wrote /\ calls[j].wrote)
  /\ \A p \in 1..Len(policies) :
       LET entries == EntriesOf(approval_logs, p)
       IN \A a, b \in 1..Len(entries) :
            (a # b /\ entries[a][2] \in PendingStatus) => entries[a][2] # entries[b][2]

\* C29: a stored policy whose premium exceeds 100000 and whose customer name
\* is shorter than 3 characters or all digits has fraud_check_passed = FALSE.
C29_FraudAnnotationConsistent ==
  \A p \in 1..Len(policies) :
    (/\ policies[p].premium_amount > 100000
     /\ \/ Len(policies[p].customer_name) < 3
        \/ IsDigits(policies[p].customer_name))
    => ~policies[p].fraud_check_passed

\* C29 (amended): createPolicy stores a policy whose premium exceeds 100000
\* and whose customer name is shorter than 3 characters or all digits with
\* fraud_check_passed = FALSE, and no later step changes the fraud
\* annotation of a stored policy.
C29_AnnotationFromCreation ==
  [][/\ \A p \in 1..Len(policies) :
          /\ policies'[p].fraud_check_passed = policies[p].fraud_check_passed
          /\ policies'[p].fraud_check_reason = policies[p].fraud_check_reason
     /\ Len(policies') > Len(policies) =>
          LET row == policies'[Len(policies')]
          IN (/\ row.premium_amount > 100000
              /\ Len(row.customer_name) < 3 \/ IsDigits(row.customer_name))
             => ~row.fraud_check_passed]_vars

C29_Witness ==
  \E i \in Slots :
    /\ calls[i].op = "updatePolicy" /\ calls[i].pc = "done" /\ calls[i].result = "ok"
    /\ policies[calls[i].policyId].premium_amount > 100000
    /\ IsDigits(policies[calls[i].policyId].customer_name)
    /\ policies[calls[i].policyId].fraud_check_passed

====
